---------------------------- MODULE Spec2Model ----------------------------
(***************************************************************************)
(* A model of the zot-dga media API: uploads (multer storage and           *)
(* UploadController), the file registry (models/File.js), file deletion    *)
(* (FileController.deleteFile) and the on-demand image derivative pipeline *)
(* with its filesystem cache (controllers/processController.js).           *)
(*                                                                         *)
(* Strings are sequences of tokens.  A token is a single character where   *)
(* the code looks at characters (digits, signs, "." and "/") and an        *)
(* indivisible run of other characters elsewhere ("cache", "jpeg", a uuid).*)
(* Paths are strings with "/" tokens between their segments.               *)
(***************************************************************************)
EXTENDS Integers, Sequences, FiniteSets, TLC

(***************************************************************************)
(* Bounds of the model.                                                    *)
(***************************************************************************)
\* uploads accepted by multer over a run
MaxUploads == 2
\* HTTP requests to /api/process over a run (one slot each)
NumReq == 2

(***************************************************************************)
(* Program constants.                                                      *)
(***************************************************************************)
MaxDimension == 4096
MinQuality == 1
MaxQuality == 100
MinThumb == 50
MaxThumb == 1000
DefaultThumb == 300
UploadThumb == 300

(***************************************************************************)
(* JavaScript values.  undefined (an absent query field) is a string no    *)
(* request can carry; numbers, NaN and null are tagged records.            *)
(***************************************************************************)
Undefined == <<"#undefined">>

Num(n) == [t |-> "num", n |-> n]

NaN == [t |-> "nan", n |-> 0]

Null == [t |-> "null", n |-> 0]

\* !s for a query string: undefined and '' are falsy
StrTruthy(s) == s # Undefined /\ s # <<>>

\* truthiness of a number-or-null: 0, NaN and null are falsy
NumTruthy(v) == v.t = "num" /\ v.n # 0

\* a < b and a > b on numbers: every comparison with NaN is false
JsLt(v, k) == v.t = "num" /\ v.n < k

JsGt(v, k) == v.t = "num" /\ v.n > k

DecDigits == <<"0", "1", "2", "3", "4", "5", "6", "7", "8", "9">>

HexDigits == DecDigits \o <<"a", "b", "c", "d", "e", "f">>

DigitValue(c, digits) == (CHOOSE k \in 1..Len(digits) : digits[k] = c) - 1

IsDigit(c, digits) == \E k \in 1..Len(digits) : digits[k] = c

RECURSIVE DigitPrefix(_, _)
\* the longest prefix of s made of digits
DigitPrefix(s, digits) ==
    IF s = <<>> \/ ~IsDigit(Head(s), digits) THEN <<>>
    ELSE <<Head(s)>> \o DigitPrefix(Tail(s), digits)

RECURSIVE DigitsValue(_, _, _)
DigitsValue(s, digits, acc) ==
    IF s = <<>> THEN acc
    ELSE DigitsValue(Tail(s), digits, acc * Len(digits) + DigitValue(Head(s), digits))

RECURSIVE SkipSpace(_)
SkipSpace(s) == IF s # <<>> /\ Head(s) = " " THEN SkipSpace(Tail(s)) ELSE s

\* parseInt(s) with no radix: leading blanks, a sign, then an optional 0x and
\* the longest run of digits; NaN when there is no digit
ParseInt(s) ==
    IF s = Undefined THEN NaN
    ELSE LET t == SkipSpace(s)
             signed == t # <<>> /\ Head(t) \in {"-", "+"}
             sign == IF signed /\ Head(t) = "-" THEN -1 ELSE 1
             u == IF signed THEN Tail(t) ELSE t
             hex == Len(u) >= 2 /\ u[1] = "0" /\ u[2] \in {"x", "X"}
             digits == IF hex THEN HexDigits ELSE DecDigits
             body == DigitPrefix(IF hex THEN Tail(Tail(u)) ELSE u, digits)
         IN IF body = <<>> THEN NaN ELSE Num(sign * DigitsValue(body, digits, 0))

RECURSIVE NatStr(_)
NatStr(n) == IF n < 10 THEN <<DecDigits[n + 1]>>
             ELSE NatStr(n \div 10) \o <<DecDigits[(n % 10) + 1]>>

\* `${v}` for a number
NumStr(v) ==
    IF v.t = "nan" THEN <<"NaN">>
    ELSE IF v.t = "null" THEN <<"null">>
    ELSE IF v.n < 0 THEN <<"-">> \o NatStr(-v.n) ELSE NatStr(v.n)

(***************************************************************************)
(* Node's path module on token strings.                                    *)
(***************************************************************************)
RECURSIVE LastIndexOf(_, _)
\* the last position of token c in s, 0 when there is none
LastIndexOf(s, c) ==
    IF s = <<>> THEN 0
    ELSE IF s[Len(s)] = c THEN Len(s)
    ELSE LastIndexOf(SubSeq(s, 1, Len(s) - 1), c)

RECURSIVE SplitPath(_, _, _)
\* the segments of s between its "/" tokens (empty ones included)
SplitPath(s, cur, acc) ==
    IF s = <<>> THEN Append(acc, cur)
    ELSE IF Head(s) = "/" THEN SplitPath(Tail(s), <<>>, Append(acc, cur))
    ELSE SplitPath(Tail(s), Append(cur, Head(s)), acc)

RECURSIVE NormalizeSegs(_, _)
\* path.normalize on segments: '' and '.' vanish, '..' takes the segment before it
NormalizeSegs(segs, acc) ==
    IF segs = <<>> THEN acc
    ELSE LET g == Head(segs)
         IN IF g = <<>> \/ g = <<".">> THEN NormalizeSegs(Tail(segs), acc)
            ELSE IF g = <<"..">> /\ acc # <<>> /\ acc[Len(acc)] # <<"..">>
                 THEN NormalizeSegs(Tail(segs), SubSeq(acc, 1, Len(acc) - 1))
            ELSE NormalizeSegs(Tail(segs), Append(acc, g))

RECURSIVE JoinSegs(_)
JoinSegs(segs) ==
    IF segs = <<>> THEN <<>>
    ELSE IF Len(segs) = 1 THEN segs[1]
    ELSE segs[1] \o <<"/">> \o JoinSegs(Tail(segs))

\* path.join(a, b) of relative paths
PathJoin(a, b) ==
    LET segs == NormalizeSegs(SplitPath(a \o <<"/">> \o b, <<>>, <<>>), <<>>)
    IN IF segs = <<>> THEN <<".">> ELSE JoinSegs(segs)

\* path.dirname(p)
Dirname(p) ==
    LET k == LastIndexOf(p, "/")
    IN IF k = 0 THEN <<".">> ELSE SubSeq(p, 1, k - 1)

\* path.basename(p)
Basename(p) == SubSeq(p, LastIndexOf(p, "/") + 1, Len(p))

\* path.extname(p): from the last "." of the basename, '' when it has none or
\* only a leading one
Extname(p) ==
    LET b == Basename(p)
        k == LastIndexOf(b, ".")
    IN IF k <= 1 THEN <<>> ELSE SubSeq(b, k, Len(b))

\* path.parse(p).name: the basename without its extension
PathName(p) ==
    LET b == Basename(p)
    IN SubSeq(b, 1, Len(b) - Len(Extname(p)))

RECURSIVE IndexOf(_, _, _)
\* the first position at or after k where pat occurs in s, 0 when it does not
IndexOf(s, pat, k) ==
    IF k + Len(pat) - 1 > Len(s) THEN 0
    ELSE IF SubSeq(s, k, k + Len(pat) - 1) = pat THEN k
    ELSE IndexOf(s, pat, k + 1)

\* s.replace(pat, rep): the first occurrence only
ReplaceFirst(s, pat, rep) ==
    LET k == IndexOf(s, pat, 1)
    IN IF k = 0 THEN s
       ELSE SubSeq(s, 1, k - 1) \o rep \o SubSeq(s, k + Len(pat), Len(s))

\* p is a file directly inside directory d
DirectlyInside(p, d) == Dirname(p) = d

\* p is d or lies anywhere below d
InsideOrEqual(p, d) ==
    \/ p = d
    \/ Len(p) > Len(d) /\ SubSeq(p, 1, Len(d) + 1) = d \o <<"/">>

(***************************************************************************)
(* The state.                                                              *)
(***************************************************************************)
VARIABLES
    files,          \* rows of table files
    folders,        \* rows of table folders
    lastFileId,     \* AUTOINCREMENT of files.id
    lastFolderId,   \* AUTOINCREMENT of folders.id
    uploads,        \* files multer has stored so far (the source of uuids)
    disk,           \* the regular files on disk: path -> content
    dirs,           \* the directories on disk
    unlinking,      \* rows deleteFile has deleted and not yet unlinked
    deleted,        \* rows for which deleteFile has answered success
    req,            \* the requests to /api/process, one per slot
    gate,           \* what authenticateApiKey did with the latest request
    users,          \* rows of table users
    keysIssued,     \* API keys uuidv4 has generated since start
    removing,       \* Folder.delete calls between their count and their DELETE
    res             \* the latest response of the auth and folder controllers

vars == <<files, folders, lastFileId, lastFolderId, uploads, disk, dirs,
          unlinking, deleted, req, gate, users, keysIssued, removing, res>>

\* the state of the auth and folder controllers
account == <<users, keysIssued, removing, res>>

\* everything the controllers read and write
served == <<files, folders, lastFileId, lastFolderId, uploads, disk, dirs,
            unlinking, deleted, req>>

\* the ids the auth layer puts in req.user.id: users.id is AUTOINCREMENT
Users == {1, 2}

Slots == 1..NumReq

\* the ids a client may put in the URL
FileIds == 1..MaxUploads

NoPath == <<"#null">>

NoRow == [id |-> 0, filename |-> <<>>, path |-> NoPath, file_type |-> "none",
          user_id |-> 0, folder_id |-> 0, thumbnail_path |-> NoPath,
          width |-> 0, height |-> 0]

(***************************************************************************)
(* File contents.  An original holds the decoded size of the upload; a     *)
(* rendition records the transform that produced it.  open counts the      *)
(* encoders still writing the file, torn marks a write that failed half    *)
(* way: the bytes are complete only when open = 0 and torn is false.       *)
(***************************************************************************)
NoContent == [kind |-> "none", src |-> 0, fit |-> "none", w |-> 0, h |-> 0,
              fmt |-> "none", q |-> Null, open |-> 0, torn |-> FALSE]

Original(n, dims, ext) ==
    [kind |-> "original", src |-> n, fit |-> "none", w |-> dims[1], h |-> dims[2],
     fmt |-> ext, q |-> Null, open |-> 0, torn |-> FALSE]

Derived(src, fit, w, h, fmt, q) ==
    [kind |-> "derived", src |-> src.src, fit |-> fit, w |-> w, h |-> h,
     fmt |-> fmt, q |-> q, open |-> 0, torn |-> FALSE]

Complete(c) == c.kind # "none" /\ c.open = 0 /\ ~c.torn

\* the bytes of a file without its write bookkeeping
Bytes(c) == [c EXCEPT !.open = 0, !.torn = FALSE]

Min(a, b) == IF a <= b THEN a ELSE b

Max(a, b) == IF a >= b THEN a ELSE b

\* round(a / b) for positive a, b, at least 1
RoundDiv(a, b) == Max(1, (2 * a + b) \div (2 * b))

\* sharp.resize(w, h, {fit: 'inside', withoutEnlargement: true}) of a W x H
\* image: the largest size within the box that keeps the aspect ratio, and the
\* original size when the box does not shrink it
InsideFit(W, H, w, h) ==
    LET bw == IF w.t = "num" THEN w.n ELSE W
        bh == IF h.t = "num" THEN h.n ELSE H
        byWidth == bw * H <= bh * W
    IN IF bw >= W /\ bh >= H THEN <<W, H>>
       ELSE IF byWidth THEN <<bw, RoundDiv(H * bw, W)>>
       ELSE <<RoundDiv(W * bh, H), bh>>

\* sharp's own check of a resize dimension: absent, or a positive integer
SharpDimOk(v) == v.t = "null" \/ (v.t = "num" /\ v.n > 0)

\* sharp's own check of an encoder quality: an integer 1..100
SharpQualityOk(v) == v.t = "num" /\ v.n >= 1 /\ v.n <= 100

(***************************************************************************)
(* Uploads: multer's disk storage and file filter, then the controller.    *)
(***************************************************************************)
\* process.env.UPLOAD_PATH || './uploads'
UploadPath == <<".", "/", "uploads">>

AllowedImageTypes == {"jpeg", "jpg", "png", "gif", "webp", "svg"}

AllowedVideoTypes == {"mp4", "avi", "mov", "wmv", "flv", "webm"}

\* fileFilter: the kind of an upload by the extension of its original name,
\* "rejected" when the extension is not allowed
fileFilter(originalname) ==
    LET e == Extname(originalname)
        fileExt == IF e = <<>> THEN <<>> ELSE Tail(e)
    IN IF Len(fileExt) = 1 /\ fileExt[1] \in AllowedImageTypes THEN "image"
       ELSE IF Len(fileExt) = 1 /\ fileExt[1] \in AllowedVideoTypes THEN "video"
       ELSE "rejected"

\* storage.destination: uploads/<user id>, and below it the folder field as sent
StorageDestination(user, folder) ==
    LET userPath == PathJoin(UploadPath, NatStr(user))
    IN IF StrTruthy(folder) THEN PathJoin(userPath, folder) ELSE userPath

\* storage.filename: a fresh uuid and the extension of the original name
StorageFilename(n, originalname) == <<"u">> \o NatStr(n) \o Extname(originalname)

RECURSIVE Ancestors(_)
\* a directory and every directory above it: mkdirSync(p, {recursive: true})
Ancestors(p) ==
    IF LastIndexOf(p, "/") = 0 THEN {p}
    ELSE {p} \cup Ancestors(Dirname(p))

\* Folder.generatePath: lower case, then only letters, digits, blanks and
\* dashes are kept
generatePath(name) ==
    SelectSeq(name, LAMBDA t : t \notin {".", "..", "/", "_", "\\"})

\* Folder.findByPath(path, userId)
FolderFindByPath(path, userId) ==
    {f \in folders : f.path = path /\ f.user_id = userId}

\* the thumbnail uploadImage writes next to the file
ThumbnailPath(path) == ReplaceFirst(path, Extname(path), <<"_thumb", ".", "jpg">>)

UploadThumbnail(src) ==
    LET d == InsideFit(src.w, src.h, Num(UploadThumb), Num(UploadThumb))
    IN Derived(src, "inside", d[1], d[2], "jpeg", Num(80))

\* One upload through route /upload/image (thumb = TRUE) or /upload/video
\* (thumb = FALSE): multer stores the file, the controller finds or creates
\* the folder row, writes the thumbnail of an image and inserts the file row.
\* A folder row that cannot be inserted (folders.path is UNIQUE) fails the
\* upload, and the stored file is removed again.
Upload(u, thumb) ==
    LET n == uploads + 1
        kind == fileFilter(u.originalname)
        dest == StorageDestination(u.user, u.folder)
        filename == StorageFilename(n, u.originalname)
        path == PathJoin(dest, filename)
        content == Original(n, u.dims, Tail(Extname(u.originalname))[1])
        withFolder == StrTruthy(u.folder)
        folderPath == generatePath(u.folder)
        found == FolderFindByPath(folderPath, u.user)
        clash == withFolder /\ found = {} /\ \E f \in folders : f.path = folderPath
        newFolder == withFolder /\ found = {} /\ ~clash
        folderId == IF ~withFolder THEN 0
                    ELSE IF found # {} THEN (CHOOSE f \in found : TRUE).id
                    ELSE lastFolderId + 1
        makeThumb == thumb /\ kind = "image"
        thumbPath == ThumbnailPath(path)
        row == [id |-> lastFileId + 1, filename |-> filename, path |-> path,
                file_type |-> kind, user_id |-> u.user, folder_id |-> folderId,
                thumbnail_path |-> IF makeThumb THEN thumbPath ELSE NoPath,
                width |-> IF makeThumb THEN u.dims[1] ELSE 0,
                height |-> IF makeThumb THEN u.dims[2] ELSE 0]
    IN /\ uploads < MaxUploads
       /\ kind # "rejected"
       /\ uploads' = n
       /\ dirs' = dirs \cup Ancestors(dest)
       /\ IF clash
          THEN /\ disk' = disk
               /\ UNCHANGED <<files, folders, lastFileId, lastFolderId>>
          ELSE /\ disk' = IF makeThumb
                          THEN (path :> content) @@ (thumbPath :> UploadThumbnail(content)) @@ disk
                          ELSE (path :> content) @@ disk
               /\ files' = files \cup {row}
               /\ lastFileId' = lastFileId + 1
               /\ folders' = IF newFolder
                             THEN folders \cup {[id |-> folderId, path |-> folderPath,
                                                 user_id |-> u.user, parent_id |-> 0]}
                             ELSE folders
               /\ lastFolderId' = IF newFolder THEN folderId ELSE lastFolderId
       /\ UNCHANGED <<unlinking, deleted, req>>

uploadImage(u) == Upload(u, TRUE)

uploadVideo(u) == Upload(u, FALSE)

(***************************************************************************)
(* The registry and deleteFile.                                            *)
(***************************************************************************)
\* File.findById with the AND user_id = ? clause left out
findByIdAnyOwner(id, userId) ==
    LET rows == {f \in files : f.id = id}
    IN IF rows = {} THEN NoRow ELSE CHOOSE f \in rows : TRUE

\* File.findById(id, userId): the owner filter is added when userId is truthy
findById(id, userId) ==
    LET rows == {f \in files : f.id = id /\ (userId # 0 => f.user_id = userId)}
    IN IF rows = {} THEN NoRow ELSE CHOOSE f \in rows : TRUE

\* File.delete with the DELETE statement left out: the row stays
FileDeleteKeepingRow(caller, id) ==
    \E f \in files :
        /\ f.id = id /\ f.user_id = caller
        /\ f \notin unlinking /\ f \notin deleted
        /\ unlinking' = unlinking \cup {f}
        /\ UNCHANGED <<files, folders, lastFileId, lastFolderId, uploads, disk, dirs,
                       deleted, req>>

\* File.delete(id, userId): the row is selected, then deleted
FileDelete(caller, id) ==
    \E f \in files :
        /\ f.id = id /\ f.user_id = caller
        /\ files' = files \ {f}
        /\ unlinking' = unlinking \cup {f}
        /\ UNCHANGED <<folders, lastFileId, lastFolderId, uploads, disk, dirs, deleted, req>>

\* deleteFile after File.delete: the original and the thumbnail are unlinked
\* when they exist, then the success response is sent
deleteFile(f) ==
    /\ f \in unlinking
    /\ unlinking' = unlinking \ {f}
    /\ deleted' = deleted \cup {f}
    /\ disk' = [p \in DOMAIN disk \ {f.path, f.thumbnail_path} |-> disk[p]]
    /\ UNCHANGED <<files, folders, lastFileId, lastFolderId, uploads, dirs, req>>

(***************************************************************************)
(* ProcessController: what each handler computes from req.query.           *)
(***************************************************************************)
NoQuery == [width |-> Undefined, height |-> Undefined, quality |-> Undefined,
            format |-> Undefined, size |-> Undefined, x |-> Undefined, y |-> Undefined]

\* const { quality = 80 } = req.query; q = parseInt(quality)
QualityOf(query) ==
    ParseInt(IF query.quality = Undefined THEN <<"8", "0">> ELSE query.quality)

\* w = width ? parseInt(width) : null (and h likewise)
DimOf(s) == IF StrTruthy(s) THEN ParseInt(s) ELSE Null

\* const { size = 300 } = req.query; s = parseInt(size)
SizeOf(query) ==
    ParseInt(IF query.size = Undefined THEN NatStr(DefaultThumb) ELSE query.size)

LowerToken(t) ==
    CASE t = "JPEG" -> "jpeg" [] t = "JPG" -> "jpg" [] t = "PNG" -> "png"
      [] t = "WEBP" -> "webp" [] t = "GIF" -> "gif" [] OTHER -> t

\* format.toLowerCase()
ToLowerCase(s) == [k \in 1..Len(s) |-> LowerToken(s[k])]

SupportedFormats == {<<"jpeg">>, <<"jpg">>, <<"png">>, <<"webp">>, <<"gif">>}

QualityError(query) ==
    IF JsLt(QualityOf(query), MinQuality) \/ JsGt(QualityOf(query), MaxQuality)
    THEN "Invalid quality" ELSE ""

\* w && (w < 1 || w > 4096)
DimOutOfRange(v) == NumTruthy(v) /\ (JsLt(v, 1) \/ JsGt(v, MaxDimension))

\* the 400 a resize request gets from the parameter checks, "" when it passes
ResizeError(query) ==
    IF ~StrTruthy(query.width) /\ ~StrTruthy(query.height) THEN "Missing parameters"
    ELSE IF DimOutOfRange(DimOf(query.width)) \/ DimOutOfRange(DimOf(query.height))
         THEN "Invalid dimensions"
    ELSE QualityError(query)

ConvertError(query) ==
    IF ~StrTruthy(query.format) THEN "Missing format"
    ELSE IF ToLowerCase(query.format) \notin SupportedFormats THEN "Unsupported format"
    ELSE QualityError(query)

ThumbnailError(query) ==
    IF JsLt(SizeOf(query), MinThumb) \/ JsGt(SizeOf(query), MaxThumb) THEN "Invalid size"
    ELSE QualityError(query)

CropError(query) ==
    IF ~StrTruthy(query.x) \/ ~StrTruthy(query.y)
       \/ ~StrTruthy(query.width) \/ ~StrTruthy(query.height) THEN "Missing parameters"
    ELSE IF \/ JsLt(ParseInt(query.x), 0) \/ JsLt(ParseInt(query.y), 0)
            \/ JsLt(ParseInt(query.width), 1) \/ JsLt(ParseInt(query.height), 1)
         THEN "Invalid crop parameters"
    ELSE QualityError(query)

ValidationError(op, query) ==
    CASE op = "resize" -> ResizeError(query)
      [] op = "convert" -> ConvertError(query)
      [] op = "thumbnail" -> ThumbnailError(query)
      [] op = "crop" -> CropError(query)
      [] OTHER -> ""

\* `${w || 'auto'}`
DimStr(v) == IF NumTruthy(v) THEN NumStr(v) ELSE <<"auto">>

\* ext = format || 'jpeg'
ResizeExt(query) == IF StrTruthy(query.format) THEN query.format ELSE <<"jpeg">>

ResizeCacheFilename(stem, query) ==
    stem \o <<"_">> \o DimStr(DimOf(query.width)) \o <<"x">> \o DimStr(DimOf(query.height))
         \o <<"_q">> \o NumStr(QualityOf(query)) \o <<".">> \o ResizeExt(query)

ConvertCacheFilename(stem, query) ==
    stem \o <<"_converted", "_q">> \o NumStr(QualityOf(query)) \o <<".">> \o query.format

ThumbnailCacheFilename(stem, query) ==
    stem \o <<"_thumb", "_">> \o NumStr(SizeOf(query)) \o <<"x">> \o NumStr(SizeOf(query))
         \o <<"_q">> \o NumStr(QualityOf(query)) \o <<".", "jpg">>

CropCacheFilename(stem, query) ==
    stem \o <<"_crop", "_">> \o NumStr(ParseInt(query.x)) \o <<"_">> \o NumStr(ParseInt(query.y))
         \o <<"_">> \o NumStr(ParseInt(query.width)) \o <<"_">> \o NumStr(ParseInt(query.height))
         \o <<"_q">> \o NumStr(QualityOf(query)) \o <<".", "jpg">>

CacheFilename(op, file, query) ==
    LET stem == PathName(file.filename)
    IN CASE op = "resize" -> ResizeCacheFilename(stem, query)
         [] op = "convert" -> ConvertCacheFilename(stem, query)
         [] op = "thumbnail" -> ThumbnailCacheFilename(stem, query)
         [] OTHER -> CropCacheFilename(stem, query)

CacheDir(file) == PathJoin(Dirname(file.path), <<"cache">>)

CachePath(op, file, query) == PathJoin(CacheDir(file), CacheFilename(op, file, query))

\* the encoder the switch on format picks
ResizeEncoder(query) ==
    IF query.format = <<"png">> THEN "png"
    ELSE IF query.format = <<"webp">> THEN "webp" ELSE "jpeg"

ConvertEncoder(query) ==
    LET f == ToLowerCase(query.format)
    IN IF f = <<"png">> THEN "png"
       ELSE IF f = <<"webp">> THEN "webp"
       ELSE IF f = <<"gif">> THEN "gif" ELSE "jpeg"

\* building the sharp pipeline throws (before toFile is called) when sharp
\* refuses an option: a dimension that is no positive integer, a quality that
\* is no integer in 1..100, an extract region that is no set of integers
SharpThrows(op, query) ==
    LET q == QualityOf(query)
        w == DimOf(query.width)
        h == DimOf(query.height)
        s == SizeOf(query)
    IN CASE op = "resize" ->
              \/ (NumTruthy(w) \/ NumTruthy(h)) /\ ~(SharpDimOk(w) /\ SharpDimOk(h))
              \/ ~SharpQualityOk(q)
         [] op = "convert" -> ConvertEncoder(query) # "gif" /\ ~SharpQualityOk(q)
         [] op = "thumbnail" -> ~(s.t = "num" /\ s.n > 0) \/ ~SharpQualityOk(q)
         [] OTHER ->
              \/ \E v \in {ParseInt(query.x), ParseInt(query.y)} : ~(v.t = "num" /\ v.n >= 0)
              \/ \E v \in {ParseInt(query.width), ParseInt(query.height)} :
                     ~(v.t = "num" /\ v.n > 0)
              \/ ~SharpQualityOk(q)

\* the extract region of a crop does not fit the decoded image: toFile rejects
ExtractOutside(src, query) ==
    \/ ParseInt(query.x).n + ParseInt(query.width).n > src.w
    \/ ParseInt(query.y).n + ParseInt(query.height).n > src.h

\* the rendition the pipeline of a request encodes from the decoded source
Rendition(op, src, query) ==
    LET q == QualityOf(query)
        w == DimOf(query.width)
        h == DimOf(query.height)
        s == SizeOf(query)
    IN CASE op = "resize" ->
              IF NumTruthy(w) \/ NumTruthy(h)
              THEN LET d == InsideFit(src.w, src.h, w, h)
                   IN Derived(src, "inside", d[1], d[2], ResizeEncoder(query), q)
              ELSE Derived(src, "none", src.w, src.h, ResizeEncoder(query), q)
         [] op = "convert" ->
              Derived(src, "none", src.w, src.h, ConvertEncoder(query),
                      IF ConvertEncoder(query) = "gif" THEN Null ELSE q)
         [] op = "thumbnail" -> Derived(src, "cover", s.n, s.n, "jpeg", q)
         [] OTHER ->
              Derived(src, "extract", ParseInt(query.width).n, ParseInt(query.height).n,
                      "jpeg", q)

FailTitle(op) ==
    CASE op = "resize" -> "Image processing failed"
      [] op = "convert" -> "Image conversion failed"
      [] op = "thumbnail" -> "Thumbnail generation failed"
      [] op = "crop" -> "Image cropping failed"
      [] OTHER -> "Unable to get image information"

(***************************************************************************)
(* ProcessController: the handlers as steps between their await points.    *)
(*   idle -> lookup      validation passed, File.findById is awaited       *)
(*   lookup -> engine    cache miss, sharp's toFile is awaited             *)
(*   engine -> writing   the encoder has created the output file           *)
(*   writing -> sending  toFile has resolved, res.sendFile streams         *)
(*   lookup -> probe     getImageInfo awaits sharp's metadata              *)
(***************************************************************************)
IdleReq == [pc |-> "idle", caller |-> 0, id |-> 0, op |-> "none", query |-> NoQuery,
            file |-> NoRow, via |-> "none", status |-> 0, err |-> "", msg |-> FALSE,
            bytes |-> NoContent, eng |-> 0]

\* res.status(status).json({error, message?})
Reply(r, status, err, msg) ==
    [r EXCEPT !.pc = "done", !.status = status, !.err = err, !.msg = msg]

\* the existence checks left out: every path is taken to exist
ExistsAlways(p) == TRUE

\* fs.existsSync(p)
Exists(p) == p \in DOMAIN disk \/ p \in dirs

\* the file a request's res.sendFile streams
SendPath(r) ==
    IF r.via = "thumb" THEN r.file.thumbnail_path ELSE CachePath(r.op, r.file, r.query)

\* no handler is between two of its steps
Quiet == unlinking = {} /\ \A i \in Slots : req[i].pc \in {"idle", "done"}

\* The handler up to its first await: the parameter checks.
Start(i, caller, id, op, query) ==
    /\ req[i].pc = "idle"
    /\ i > 1 => req[i - 1].pc # "idle"
    /\ LET r == [IdleReq EXCEPT !.caller = caller, !.id = id, !.op = op, !.query = query]
           e == ValidationError(op, query)
       IN req' = [req EXCEPT ![i] = IF e # "" THEN Reply(r, 400, e, TRUE)
                                    ELSE [r EXCEPT !.pc = "lookup"]]
    /\ UNCHANGED <<files, folders, lastFileId, lastFolderId, uploads, disk, dirs,
                   unlinking, deleted>>

\* file.file_type !== 'image' with every kind let through
IsAnyKind(file) == TRUE

\* the asset is an image: file.file_type === 'image'
IsImage(file) == file.file_type = "image"

\* fs.existsSync(cachePath) left out: the cache is never looked at
CacheMiss(cachePath) == FALSE

\* every handler taken to create the cache directory
CachesAll(op) == TRUE

\* the handlers that create the cache directory and write cache entries: the
\* transforms, not getImageInfo
Caches(op) == op # "info"

\* the cache check: fs.existsSync(cachePath)
CacheHit(cachePath) == Exists(cachePath)

\* the checks of the kind and of the original moved behind the cache directory
SourceUnchecked(file) == file # NoRow

\* the checks a handler makes before it touches the cache: the row is found,
\* it is an image, its original is on disk
SourceChecked(file) == file # NoRow /\ IsImage(file) /\ Exists(file.path)

\* File.findById has answered: the checks of the row and of the original, the
\* upload-time thumbnail of generateThumbnail, the cache directory, the cache
\* check and the sharp pipeline, up to the await of toFile or of metadata.
Lookup(i) ==
    LET r == req[i]
        file == findById(r.id, r.caller)
        found == [r EXCEPT !.file = file]
        cachePath == CachePath(r.op, file, r.query)
        checked == SourceChecked(file)
        shortcut == /\ r.op = "thumbnail"
                    /\ file.thumbnail_path # NoPath
                    /\ Exists(file.thumbnail_path)
                    /\ SizeOf(r.query) = Num(DefaultThumb)
        caching == checked /\ Caches(r.op) /\ ~shortcut
    IN /\ r.pc = "lookup"
       /\ req' = [req EXCEPT ![i] =
              IF file = NoRow THEN Reply(r, 404, "File not found", FALSE)
              ELSE IF ~IsImage(file) THEN Reply(found, 400, "Invalid file type", TRUE)
              ELSE IF ~Exists(file.path) THEN Reply(found, 404, "Physical file not found", FALSE)
              ELSE IF r.op = "info" THEN [found EXCEPT !.pc = "probe"]
              ELSE IF shortcut THEN [found EXCEPT !.pc = "sending", !.via = "thumb"]
              ELSE IF CacheHit(cachePath) THEN [found EXCEPT !.pc = "sending", !.via = "hit"]
              ELSE IF SharpThrows(r.op, r.query) THEN Reply(found, 500, FailTitle(r.op), TRUE)
              ELSE [found EXCEPT !.pc = "engine", !.via = "gen"]]
       /\ dirs' = IF caching THEN dirs \cup Ancestors(CacheDir(file)) ELSE dirs
       /\ UNCHANGED <<files, folders, lastFileId, lastFolderId, uploads, disk,
                      unlinking, deleted>>

\* toFile starts: the source is decoded and the output file is created (an
\* existing one is truncated).  It rejects, and nothing is written, when the
\* source is gone, the crop region lies outside the image or the output
\* cannot be created.
EngineOpen(i) ==
    LET r == req[i]
        out == SendPath(r)
        src == disk[r.file.path]
        rejects == \/ r.file.path \notin DOMAIN disk
                   \/ r.op = "crop" /\ ExtractOutside(src, r.query)
                   \/ Dirname(out) \notin dirs
                   \/ out \in dirs
        before == IF out \in DOMAIN disk THEN disk[out].open ELSE 0
    IN /\ r.pc = "engine"
       /\ IF rejects
          THEN /\ req' = [req EXCEPT ![i] = Reply([r EXCEPT !.eng = @ + 1], 500, FailTitle(r.op), TRUE)]
               /\ disk' = disk
          ELSE /\ req' = [req EXCEPT ![i] = [r EXCEPT !.pc = "writing", !.eng = @ + 1]]
               /\ disk' = (out :> [Rendition(r.op, src, r.query) EXCEPT !.open = before + 1])
                          @@ disk
       /\ UNCHANGED <<files, folders, lastFileId, lastFolderId, uploads, dirs,
                      unlinking, deleted>>

\* toFile resolves: this encoder has written the whole file; res.sendFile
EngineFinish(i) ==
    LET r == req[i]
        out == SendPath(r)
    IN /\ r.pc = "writing"
       /\ req' = [req EXCEPT ![i] = [r EXCEPT !.pc = "sending"]]
       /\ disk' = [disk EXCEPT ![out] =
              [@ EXCEPT !.open = @ - 1, !.torn = IF disk[out].open = 1 THEN FALSE ELSE @]]
       /\ UNCHANGED <<files, folders, lastFileId, lastFolderId, uploads, dirs,
                      unlinking, deleted>>

\* toFile rejects half way (the disk is full, the source does not decode to
\* its end): the catch answers 500 and the partial file stays
EngineFail(i) ==
    LET r == req[i]
        out == SendPath(r)
    IN /\ r.pc = "writing"
       /\ req' = [req EXCEPT ![i] = Reply(r, 500, FailTitle(r.op), TRUE)]
       /\ disk' = [disk EXCEPT ![out] = [@ EXCEPT !.open = @ - 1, !.torn = TRUE]]
       /\ UNCHANGED <<files, folders, lastFileId, lastFolderId, uploads, dirs,
                      unlinking, deleted>>

\* res.sendFile reads the file as it is on disk now; a file that is gone is
\* answered by express's own 404
Send(i) ==
    LET r == req[i]
        p == SendPath(r)
    IN /\ r.pc = "sending"
       /\ req' = [req EXCEPT ![i] =
              IF p \in DOMAIN disk
              THEN [r EXCEPT !.pc = "done", !.status = 200, !.bytes = disk[p]]
              ELSE Reply(r, 404, "Not Found", FALSE)]
       /\ UNCHANGED <<files, folders, lastFileId, lastFolderId, uploads, disk, dirs,
                      unlinking, deleted>>

\* getImageInfo: sharp's metadata of the original has answered
Probe(i) ==
    LET r == req[i]
    IN /\ r.pc = "probe"
       /\ req' = [req EXCEPT ![i] =
              IF r.file.path \in DOMAIN disk
              THEN [r EXCEPT !.pc = "done", !.status = 200,
                             !.bytes = [disk[r.file.path] EXCEPT !.kind = "metadata"]]
              ELSE Reply(r, 500, FailTitle(r.op), TRUE)]
       /\ UNCHANGED <<files, folders, lastFileId, lastFolderId, uploads, disk, dirs,
                      unlinking, deleted>>

(***************************************************************************)
(* The API key gate in front of every route: middleware/auth.js.           *)
(***************************************************************************)
\* table users at start: registered accounts; user 3 has been deactivated
InitialUsers ==
    { [id |-> 1, api_key |-> <<"k1">>, is_active |-> 1],
      [id |-> 2, api_key |-> <<"k2">>, is_active |-> 1],
      [id |-> 3, api_key |-> <<"k3">>, is_active |-> 0] }

\* SELECT * FROM users
UserRows == users

NoUser == [id |-> 0, api_key |-> Undefined, is_active |-> 0]

RECURSIVE Split(_, _, _, _)
\* s.split(sep): the pieces of s between the separators
Split(s, sep, cur, acc) ==
    IF s = <<>> THEN Append(acc, cur)
    ELSE IF Head(s) = sep THEN Split(Tail(s), sep, <<>>, Append(acc, cur))
    ELSE Split(Tail(s), sep, Append(cur, Head(s)), acc)

\* authHeader && authHeader.split(' ')[1]
ApiKeyOf(authHeader) ==
    IF ~StrTruthy(authHeader) THEN authHeader
    ELSE LET pieces == Split(authHeader, " ", <<>>, <<>>)
         IN IF Len(pieces) >= 2 THEN pieces[2] ELSE Undefined

\* the middleware left out: users.is_active is not looked at
authenticateAnyUser(authHeader) ==
    LET apiKey == ApiKeyOf(authHeader)
        rows == {u \in UserRows : u.api_key = apiKey}
    IN IF ~StrTruthy(apiKey)
       THEN [status |-> 401, err |-> "API key required", msg |-> TRUE, user |-> NoUser]
       ELSE IF rows = {}
       THEN [status |-> 401, err |-> "Invalid API key", msg |-> FALSE, user |-> NoUser]
       ELSE [status |-> 200, err |-> "", msg |-> FALSE, user |-> CHOOSE u \in rows : TRUE]

\* authenticateApiKey: the answer it sends, or status 200 and req.user when it
\* calls next()
authenticateApiKey(authHeader) ==
    LET apiKey == ApiKeyOf(authHeader)
        rows == {u \in UserRows : u.api_key = apiKey /\ u.is_active = 1}
    IN IF ~StrTruthy(apiKey)
       THEN [status |-> 401, err |-> "API key required", msg |-> TRUE, user |-> NoUser]
       ELSE IF rows = {}
       THEN [status |-> 401, err |-> "Invalid API key", msg |-> FALSE, user |-> NoUser]
       ELSE [status |-> 200, err |-> "", msg |-> FALSE, user |-> CHOOSE u \in rows : TRUE]

\* turn tells one request from the next: it flips with every request
NoGate == [route |-> "none", header |-> Undefined, status |-> 0, err |-> "",
           msg |-> FALSE, user |-> 0, turn |-> FALSE]

\* what the gate did with a request to a route
GateOf(route, authHeader) ==
    LET a == authenticateApiKey(authHeader)
    IN [route |-> route, header |-> authHeader, status |-> a.status, err |-> a.err,
        msg |-> a.msg, user |-> a.user.id, turn |-> ~gate.turn]

\* the gate answers 401 itself: the controller is not called
Refused(route, authHeader) ==
    /\ authenticateApiKey(authHeader).status # 200
    /\ gate' = GateOf(route, authHeader)
    /\ UNCHANGED <<served, account>>

\* the gate sets req.user and calls next()
Admitted(route, authHeader) ==
    /\ authenticateApiKey(authHeader).status = 200
    /\ gate' = GateOf(route, authHeader)
    /\ UNCHANGED account

\* no JWT
NoToken == [userId |-> 0]

\* no request has been answered by the auth and folder controllers yet
NoResponse == [op |-> "none", caller |-> 0, id |-> 0, name |-> <<>>, parent |-> 0,
               status |-> 0, err |-> "", key |-> Undefined, token |-> NoToken,
               turn |-> FALSE]

Init ==
    /\ files = {}
    /\ folders = {}
    /\ lastFileId = 0
    /\ lastFolderId = 0
    /\ uploads = 0
    /\ disk = <<>>
    /\ dirs = {}
    /\ unlinking = {}
    /\ deleted = {}
    /\ req = [i \in Slots |-> IdleReq]
    /\ gate = NoGate
    /\ users = InitialUsers
    /\ keysIssued = 0
    /\ removing = {}
    /\ res = NoResponse

(***************************************************************************)
(* The inputs the environment sends.                                       *)
(***************************************************************************)
Query(width, height, quality, format) ==
    [NoQuery EXCEPT !.width = width, !.height = height, !.quality = quality,
                    !.format = format]

CropQuery(x, y, width, height) ==
    [NoQuery EXCEPT !.x = x, !.y = y, !.width = width, !.height = height]

Request(op, query) == [op |-> op, query |-> query]

U == Undefined

\* a format field that climbs out of the cache directory
Climbing == <<"/", "..", "/", "..", "/", "x">>

\* a folder field that climbs into the directory of user 2
Sideways == <<"..", "/", "2">>

SourceDims == {<<400, 200>>}

Photo == <<"photo", ".", "png">>

Clip == <<"clip", ".", "mp4">>

UploadInput(user, folder, originalname) ==
    [user |-> user, folder |-> folder, originalname |-> originalname,
     dims |-> CHOOSE d \in SourceDims : TRUE]

\* The system under the inputs of one specification: the uploads sent to
\* /upload/image and to /upload/video, the callers, ids and requests sent to
\* /api/process, the number of uploads, and whether the handlers run one at a
\* time (each request is answered before the next one is sent).
System(toImage, toVideo, callers, ids, requests, maxUploads, oneAtATime) ==
    \/ \E u \in toImage :
           /\ (oneAtATime => Quiet) /\ uploads < maxUploads /\ uploadImage(u)
           /\ UNCHANGED <<gate, account>>
    \/ \E u \in toVideo :
           /\ (oneAtATime => Quiet) /\ uploads < maxUploads /\ uploadVideo(u)
           /\ UNCHANGED <<gate, account>>
    \/ \E i \in Slots, c \in callers, id \in ids, rq \in requests :
           /\ (oneAtATime => Quiet) /\ Start(i, c, id, rq.op, rq.query)
           /\ UNCHANGED <<gate, account>>
    \/ \E i \in Slots : Lookup(i) /\ UNCHANGED <<gate, account>>
    \/ \E i \in Slots : EngineOpen(i) /\ UNCHANGED <<gate, account>>
    \/ \E i \in Slots : EngineFinish(i) /\ UNCHANGED <<gate, account>>
    \/ \E i \in Slots : EngineFail(i) /\ UNCHANGED <<gate, account>>
    \/ \E i \in Slots : Send(i) /\ UNCHANGED <<gate, account>>
    \/ \E i \in Slots : Probe(i) /\ UNCHANGED <<gate, account>>
    \/ \E c \in callers, id \in ids :
           /\ (oneAtATime => Quiet) /\ FileDelete(c, id)
           /\ UNCHANGED <<gate, account>>
    \/ \E f \in unlinking : deleteFile(f) /\ UNCHANGED <<gate, account>>

(***************************************************************************)
(* Spec: every interleaving of the handlers' steps, on one asset.          *)
(***************************************************************************)
\* uploads of the concurrent specification
RaceUploads == 1

\* folders createFolder creates
MaxFolders == 2

\* one request of each operation, and one the parameter checks refuse
Requests ==
    { Request("resize", Query(NatStr(100), U, U, U)),
      Request("resize", NoQuery),
      Request("thumbnail", NoQuery),
      Request("crop", CropQuery(NatStr(0), NatStr(0), NatStr(100), NatStr(100))),
      Request("convert", Query(U, U, U, <<"png">>)),
      Request("info", NoQuery) }

Next ==
    System({UploadInput(1, U, Photo), UploadInput(2, U, Photo)},
           {UploadInput(1, U, Clip)},
           Users, 1..RaceUploads, Requests, RaceUploads, FALSE)

Spec == Init /\ [][Next]_vars

(***************************************************************************)
(* SpecSeq: one handler at a time, two users, uploads with and without a   *)
(* folder field and through both routes.                                   *)
(***************************************************************************)
SeqRequests ==
    { Request("thumbnail", NoQuery),
      Request("thumbnail", [NoQuery EXCEPT !.size = NatStr(50)]),
      Request("thumbnail", [NoQuery EXCEPT !.quality = NatStr(90)]),
      Request("resize", Query(NatStr(100), U, U, U)),
      Request("info", NoQuery) }

NextSeq ==
    System({UploadInput(u, f, Photo) : u \in Users, f \in {U, Sideways}},
           {UploadInput(1, U, Photo), UploadInput(1, U, Clip)},
           Users, FileIds, SeqRequests, MaxUploads, TRUE)

SpecSeq == Init /\ [][NextSeq]_vars

(***************************************************************************)
(* SpecParams: one handler at a time, one user, and the query strings that *)
(* sit on and around every limit of the parameter checks.                  *)
(***************************************************************************)
Abc == <<"a", "b", "c">>

Minus(n) == <<"-">> \o NatStr(n)

ResizeRequests ==
    { Request("resize", Query(w, U, U, U)) :
          w \in {U, NatStr(0), NatStr(1), NatStr(100), NatStr(MaxDimension),
                 NatStr(MaxDimension + 1), Minus(1), Abc} }
    \cup { Request("resize", Query(w, h, U, U)) :
          w \in {U, NatStr(0)}, h \in {NatStr(0), NatStr(100), NatStr(MaxDimension + 1)} }
    \cup { Request("resize", Query(NatStr(100), U, q, U)) :
          q \in {NatStr(0), NatStr(MinQuality), NatStr(MaxQuality), NatStr(MaxQuality + 1),
                 Minus(5), Abc} }
    \cup { Request("resize", Query(NatStr(100), U, U, f)) :
          f \in {<<"jpeg">>, <<"png">>, <<"webp">>, <<"gif">>, Climbing} }

ConvertRequests ==
    { Request("convert", Query(U, U, U, f)) :
          f \in {U, <<"jpeg">>, <<"png">>, <<"webp">>, <<"gif">>, <<"PNG">>, <<"bmp">>} }
    \cup { Request("convert", Query(U, U, q, f)) :
          q \in {NatStr(90), Abc}, f \in {<<"webp">>, <<"gif">>} }

ThumbnailRequests ==
    { Request("thumbnail", [NoQuery EXCEPT !.size = z]) :
          z \in {U, NatStr(MinThumb - 1), NatStr(MinThumb), NatStr(DefaultThumb),
                 NatStr(MaxThumb), NatStr(MaxThumb + 1), Abc} }
    \cup { Request("thumbnail", [NoQuery EXCEPT !.quality = q]) : q \in {NatStr(0), Abc} }

CropRequests ==
    { Request("crop", CropQuery(x, NatStr(0), w, NatStr(100))) :
          x \in {U, NatStr(0), NatStr(300), Minus(1), Abc}, w \in {NatStr(200)} }
    \cup { Request("crop", CropQuery(NatStr(0), y, w, h)) :
          y \in {U, Minus(1)}, w \in {NatStr(0), NatStr(200)}, h \in {U, NatStr(0)} }

ParamRequests ==
    ResizeRequests \cup ConvertRequests \cup ThumbnailRequests \cup CropRequests
    \cup {Request("info", NoQuery)}

\* uploads of the parameter specification
ParamUploads == 1

NextParams ==
    System({UploadInput(1, U, Photo)}, {UploadInput(1, U, Clip)},
           {1}, 1..ParamUploads, ParamRequests, ParamUploads, TRUE)

SpecParams == Init /\ [][NextParams]_vars


(***************************************************************************)
(* SpecLoss: Spec, and the consistency gap the handlers check for: the      *)
(* bytes of an original disappear from storage while its row stays (files   *)
(* removed or lost outside the API).                                        *)
(***************************************************************************)
LoseOriginal(f) ==
    /\ f \in files
    /\ f.path \in DOMAIN disk
    /\ disk' = [p \in DOMAIN disk \ {f.path} |-> disk[p]]
    /\ UNCHANGED <<files, folders, lastFileId, lastFolderId, uploads, dirs,
                   unlinking, deleted, req, gate, account>>

NextLoss ==
    \/ Next
    \/ \E f \in files : LoseOriginal(f)

SpecLoss == Init /\ [][NextLoss]_vars

(***************************************************************************)
(* FolderController and Folder: createFolder and deleteFolder.              *)
(***************************************************************************)
\* res.status(status).json(...) of the auth and folder controllers; turn
\* tells one response from the next
Respond(op, caller, id, name, parent, status, err) ==
    [NoResponse EXCEPT !.op = op, !.caller = caller, !.id = id, !.name = name,
                       !.parent = parent, !.status = status, !.err = err,
                       !.turn = ~res.turn]

\* createFolderSchema: name is a string of 1..100 characters
ValidFolderName(name) == name # Undefined /\ name # <<>>

\* Folder.findById(parentId, req.user.id) finds the parent, when one is named
ParentFound(parentId, caller) ==
    parentId = 0 \/ \E f \in folders : f.id = parentId /\ f.user_id = caller

\* createFolder: the schema, Folder.findByPath for the caller, the parent,
\* then the INSERT, which the UNIQUE constraint on folders.path rejects when
\* any row has the path
createFolder(caller, name, parentId) ==
    LET path == generatePath(name)
        id == lastFolderId + 1
        row == [id |-> id, path |-> path, user_id |-> caller, parent_id |-> parentId]
        status == IF ~ValidFolderName(name) THEN 400
                  ELSE IF FolderFindByPath(path, caller) # {} THEN 400
                  ELSE IF ~ParentFound(parentId, caller) THEN 400
                  ELSE IF \E f \in folders : f.path = path THEN 500
                  ELSE 201
        err == IF ~ValidFolderName(name) THEN "Validation error"
               ELSE IF FolderFindByPath(path, caller) # {} THEN "Folder already exists"
               ELSE IF ~ParentFound(parentId, caller) THEN "Parent folder not found"
               ELSE IF \E f \in folders : f.path = path THEN "Unable to create folder"
               ELSE ""
    IN /\ lastFolderId < MaxFolders
       /\ res' = Respond("createFolder", caller, IF status = 201 THEN id ELSE 0,
                         name, parentId, status, err)
       /\ folders' = IF status = 201 THEN folders \cup {row} ELSE folders
       /\ lastFolderId' = IF status = 201 THEN id ELSE lastFolderId
       /\ UNCHANGED <<files, lastFileId, uploads, disk, dirs, unlinking, deleted, req,
                      gate, users, keysIssued, removing>>

\* the rows the count of Folder.delete sees: files in the folder, folders
\* under it
FolderContents(id) ==
    [file_count |-> Cardinality({f \in files : f.folder_id = id}),
     subfolder_count |-> Cardinality({g \in folders : g.parent_id = id})]

\* Folder.delete, first statement: the count.  A folder with contents is
\* refused (deleteFolder answers 400); otherwise the DELETE is issued.
deleteFolderCount(caller, id) ==
    LET counts == FolderContents(id)
    IN /\ [caller |-> caller, id |-> id] \notin removing
       /\ IF counts.file_count > 0 \/ counts.subfolder_count > 0
          THEN /\ res' = Respond("deleteFolder", caller, id, <<>>, 0, 400,
                                 "Cannot delete folder")
               /\ UNCHANGED removing
          ELSE /\ removing' = removing \cup {[caller |-> caller, id |-> id]}
               /\ UNCHANGED res
       /\ UNCHANGED <<files, folders, lastFileId, lastFolderId, uploads, disk, dirs,
                      unlinking, deleted, req, gate, users, keysIssued>>

RECURSIVE Under(_)
\* the folders ON DELETE CASCADE removes with the folders ids
Under(ids) ==
    LET more == ids \cup {g.id : g \in {h \in folders : h.parent_id \in ids}}
    IN IF more = ids THEN ids ELSE Under(more)

\* Folder.delete, second statement: DELETE FROM folders WHERE id = ? AND
\* user_id = ?, with foreign keys on: the folders under it go with it and the
\* files in them get folder_id NULL.  deleteFolder answers 404 when no row
\* was deleted.
deleteFolderRun(c) ==
    LET rows == {f \in folders : f.id = c.id /\ f.user_id = c.caller}
        gone == IF rows = {} THEN {} ELSE Under({c.id})
    IN /\ c \in removing
       /\ removing' = removing \ {c}
       /\ folders' = {f \in folders : f.id \notin gone}
       /\ files' = {IF f.folder_id \in gone THEN [f EXCEPT !.folder_id = 0] ELSE f :
                       f \in files}
       /\ res' = IF rows = {}
                 THEN Respond("deleteFolder", c.caller, c.id, <<>>, 0, 404, "Folder not found")
                 ELSE Respond("deleteFolder", c.caller, c.id, <<>>, 0, 200, "")
       /\ UNCHANGED <<lastFileId, lastFolderId, uploads, disk, dirs, unlinking, deleted,
                      req, gate, users, keysIssued>>

(***************************************************************************)
(* SpecFolders: two users create and delete folders and upload into them,   *)
(* in every interleaving of the handlers' steps.                            *)
(***************************************************************************)
\* uploads of the folder specification
FolderUploads == 1

Docs == <<"docs">>

Pics == <<"pics">>

FolderNames == {Docs, Pics, <<>>}

NextFolders ==
    \/ \E c \in Users, name \in FolderNames, parent \in 0..MaxFolders :
           createFolder(c, name, parent)
    \/ \E c \in Users, id \in 1..MaxFolders : deleteFolderCount(c, id)
    \/ \E c \in removing : deleteFolderRun(c)
    \/ \E c \in Users :
           /\ uploads < FolderUploads
           /\ uploadImage(UploadInput(c, Docs, Photo)) /\ UNCHANGED <<gate, account>>

SpecFolders == Init /\ [][NextFolders]_vars

(***************************************************************************)
(* AuthController: login and generateApiKey behind authenticateToken.       *)
(***************************************************************************)
\* keys generateApiKey issues over a run
MaxKeys == 2

\* uuidv4(): the n-th key generated
NewKey(n) == <<"g", NatStr(n)>>

\* jwt.sign({ userId: user.id, email, name }, ...): the payload verify returns
TokenOf(user) == [userId |-> user.id]

\* obj[name] of a JavaScript object: undefined (no id: 0) for a property the
\* object does not have
Prop(obj, name) == IF name \in DOMAIN obj THEN obj[name] ELSE 0

\* req.user.id of generateApiKey, where authenticateToken has set req.user to
\* the payload of the token
ReqUserId(payload) == Prop(payload, "id")

\* login with the right password: a deactivated account is refused, an active
\* one gets its token
login(user) ==
    /\ user \in users
    /\ res' = IF user.is_active = 0
              THEN Respond("login", user.id, 0, <<>>, 0, 401, "Account deactivated")
              ELSE [Respond("login", user.id, 0, <<>>, 0, 200, "") EXCEPT
                        !.token = TokenOf(user)]
    /\ UNCHANGED <<served, gate, users, keysIssued, removing>>

\* POST /api/auth/generate-key with the token of the latest login:
\* User.updateApiKey(req.user.id, uuidv4()), 404 when no row was updated
generateApiKey ==
    LET payload == res.token
        userId == ReqUserId(payload)
        newApiKey == NewKey(keysIssued + 1)
        updated == \E u \in users : u.id = userId
    IN /\ res.op = "login" /\ res.status = 200
       /\ keysIssued < MaxKeys
       /\ keysIssued' = keysIssued + 1
       /\ users' = {IF u.id = userId THEN [u EXCEPT !.api_key = newApiKey] ELSE u :
                       u \in users}
       /\ res' = IF updated
                 THEN [Respond("generateApiKey", userId, 0, <<>>, 0, 200, "") EXCEPT
                           !.key = newApiKey]
                 ELSE Respond("generateApiKey", userId, 0, <<>>, 0, 404, "User not found")
       /\ UNCHANGED <<served, gate, removing>>

(***************************************************************************)
(* SpecAuth: every request goes through authenticateApiKey; one handler at *)
(* a time.  The routes of /api/folders have no controller in this model:   *)
(* only the gate's refusals are modelled for them.                         *)
(***************************************************************************)
\* uploads of the gate specification
AuthUploads == 1

Bearer(key) == <<"Bearer", " ">> \o key

\* Authorization headers: absent, a bare key without a scheme, two spaces
\* after the scheme, the key of user 1, the key of the deactivated user 3,
\* and a key of no user
Headers ==
    { Undefined, <<"k1">>, <<"Bearer", " ", " ", "k1">>,
      Bearer(<<"k1">>), Bearer(<<"k3">>), Bearer(<<"k9">>) }

Routes == {"upload", "files", "folders", "process"}

AuthRequests ==
    { Request("resize", Query(NatStr(100), U, U, U)),
      Request("info", NoQuery) }

\* req.user.id after the gate
CallerOf(authHeader) == authenticateApiKey(authHeader).user.id

NextAuth ==
    \/ \E h \in Headers, route \in Routes : Quiet /\ Refused(route, h)
    \/ \E h \in Headers :
           /\ Admitted("upload", h) /\ Quiet /\ uploads < AuthUploads
           /\ uploadImage(UploadInput(CallerOf(h), U, Photo))
    \/ \E h \in Headers :
           /\ Admitted("upload", h) /\ Quiet /\ uploads < AuthUploads
           /\ uploadVideo(UploadInput(CallerOf(h), U, Clip))
    \/ \E h \in Headers, i \in Slots, id \in 1..AuthUploads, rq \in AuthRequests :
           /\ Admitted("process", h) /\ Quiet
           /\ Start(i, CallerOf(h), id, rq.op, rq.query)
    \/ \E h \in Headers, id \in 1..AuthUploads :
           /\ Admitted("files", h) /\ Quiet
           /\ FileDelete(CallerOf(h), id)
    \/ \E i \in Slots : Lookup(i) /\ UNCHANGED <<gate, account>>
    \/ \E i \in Slots : EngineOpen(i) /\ UNCHANGED <<gate, account>>
    \/ \E i \in Slots : EngineFinish(i) /\ UNCHANGED <<gate, account>>
    \/ \E i \in Slots : EngineFail(i) /\ UNCHANGED <<gate, account>>
    \/ \E i \in Slots : Send(i) /\ UNCHANGED <<gate, account>>
    \/ \E i \in Slots : Probe(i) /\ UNCHANGED <<gate, account>>
    \/ \E f \in unlinking : deleteFile(f) /\ UNCHANGED <<gate, account>>

SpecAuth == Init /\ [][NextAuth]_vars

(***************************************************************************)
(* SpecAccount: users log in and regenerate their API key, and present the  *)
(* keys they had and the generated ones to the gate of /api/process.        *)
(***************************************************************************)
AccountHeaders ==
    {Undefined} \cup {Bearer(u.api_key) : u \in InitialUsers}
    \cup {Bearer(NewKey(n)) : n \in 1..MaxKeys}

NextAccount ==
    \/ \E user \in users : Quiet /\ login(user)
    \/ Quiet /\ generateApiKey
    \/ \E h \in AccountHeaders, route \in Routes : Quiet /\ Refused(route, h)
    \/ \E h \in AccountHeaders, i \in Slots :
           /\ Admitted("process", h) /\ Quiet
           /\ Start(i, CallerOf(h), 1, "info", NoQuery)
    \/ \E i \in Slots : Lookup(i) /\ UNCHANGED <<gate, account>>

SpecAccount == Init /\ [][NextAccount]_vars

(***************************************************************************)
(* The claims.                                                             *)
(***************************************************************************)
Transforms == {"resize", "convert", "thumbnail", "crop"}

\* every row the registry has ever held (files.id is never reused)
AllRows == files \cup unlinking \cup deleted

\* slot i has been answered
Done(i) == req[i].pc = "done"

\* slots i and j carry the same request
SameRequest(i, j) ==
    /\ req[i].caller = req[j].caller /\ req[i].id = req[j].id
    /\ req[i].op = req[j].op /\ req[i].query = req[j].query

\* C1: cache idempotence.  Of two identical transform requests sent one after
\* the other, where the first found its key uncached and was answered with
\* success and the asset is still registered, the first invoked the engine
\* exactly once, the second is a cache hit with no engine invocation, and
\* both carry the same bytes.
C1_CacheIdempotence ==
    \A i, j \in Slots :
        ( /\ i < j /\ Done(i) /\ Done(j) /\ SameRequest(i, j)
          /\ req[i].op \in Transforms
          /\ req[i].status = 200 /\ req[i].via # "hit"
          /\ req[j].file \in files )
        => /\ req[i].eng = 1
           /\ req[j].eng = 0 /\ req[j].via = "hit"
           /\ req[j].status = 200
           /\ req[j].bytes = req[i].bytes

\* C2: in every interleaving, a transform request answered with success from
\* the cache path carries complete bytes, and they are the rendition its own
\* parameters describe of the original.
C2_CompleteBytes ==
    \A i \in Slots :
        ( /\ Done(i) /\ req[i].status = 200
          /\ req[i].op \in Transforms /\ req[i].via \in {"hit", "gen"} )
        => /\ Complete(req[i].bytes)
           /\ req[i].file.path \in DOMAIN disk
                => Bytes(req[i].bytes)
                     = Rendition(req[i].op, disk[req[i].file.path], req[i].query)

\* a dimension field that is present and an integer outside 1..4096
OutsideDimRange(s) ==
    /\ StrTruthy(s)
    /\ ParseInt(s).t = "num"
    /\ (ParseInt(s).n < 1 \/ ParseInt(s).n > MaxDimension)

\* C3: a resize request whose width or height is present and an integer
\* outside 1..4096, or that has neither, is answered 400 and reaches neither
\* the registry, the cache nor the engine; width 1 and width 4096 are accepted.
C3_ResizeDimensions ==
    \A i \in Slots :
        (req[i].op = "resize" /\ req[i].pc # "idle")
        => LET q == req[i].query
           IN /\ ( \/ OutsideDimRange(q.width)
                   \/ OutsideDimRange(q.height)
                   \/ (~StrTruthy(q.width) /\ ~StrTruthy(q.height)) )
                 => /\ Done(i) /\ req[i].status = 400
                    /\ req[i].file = NoRow /\ req[i].via = "none" /\ req[i].eng = 0
              /\ ( /\ q.width \in {NatStr(1), NatStr(MaxDimension)}
                   /\ q.height = Undefined /\ q.quality = Undefined )
                 => req[i].err \notin {"Missing parameters", "Invalid dimensions",
                                       "Invalid quality"}

\* C4: a transform request whose quality, 80 when absent, is no integer in
\* 1..100 is answered 400 before the registry, the cache and the engine.
C4_QualityValidated ==
    \A i \in Slots :
        ( /\ req[i].op \in Transforms /\ req[i].pc # "idle"
          /\ ~SharpQualityOk(QualityOf(req[i].query)) )
        => /\ Done(i) /\ req[i].status = 400
           /\ req[i].file = NoRow /\ req[i].via = "none" /\ req[i].eng = 0

\* C5: a thumbnail request of size S answered with success carries the cover
\* fit S x S rendition, whatever the source and with or without an upload-time
\* thumbnail.
C5_ExactThumbnail ==
    \A i \in Slots :
        (req[i].op = "thumbnail" /\ Done(i) /\ req[i].status = 200)
        => /\ req[i].bytes.fit = "cover"
           /\ req[i].bytes.w = SizeOf(req[i].query).n
           /\ req[i].bytes.h = SizeOf(req[i].query).n

\* the typed parameters of a request: the fields its operation reads, parsed,
\* with the defaults filled in
Descriptor(op, query) ==
    CASE op = "resize" ->
             <<DimOf(query.width), DimOf(query.height), QualityOf(query), ResizeExt(query)>>
      [] op = "convert" -> <<QualityOf(query), query.format>>
      [] op = "thumbnail" -> <<SizeOf(query), QualityOf(query)>>
      [] OTHER ->
             <<ParseInt(query.x), ParseInt(query.y), ParseInt(query.width),
               ParseInt(query.height), QualityOf(query)>>

\* slot i carries a transform request that passed the parameter checks and
\* found its asset
Accepted(i) ==
    /\ req[i].op \in Transforms
    /\ req[i].pc # "idle"
    /\ ValidationError(req[i].op, req[i].query) = ""
    /\ req[i].file # NoRow

\* C6: cache key injectivity.  Two accepted transform requests on assets of
\* one directory have the same cache file name exactly when they have the same
\* asset, the same operation and the same parameters.
C6_KeyInjective ==
    \A i, j \in Slots :
        ( /\ Accepted(i) /\ Accepted(j)
          /\ Dirname(req[i].file.path) = Dirname(req[j].file.path) )
        => ( CacheFilename(req[i].op, req[i].file, req[i].query)
               = CacheFilename(req[j].op, req[j].file, req[j].query)
             <=> /\ req[i].file.id = req[j].file.id
                 /\ req[i].op = req[j].op
                 /\ Descriptor(req[i].op, req[i].query)
                      = Descriptor(req[j].op, req[j].query) )

\* C7: cache path confinement.  For every request that went through the cache
\* check, the format in the key is absent or one of the enumeration, and the
\* path checked, written and sent is a file directly inside the cache
\* directory next to the asset.
C7_CacheConfined ==
    \A i \in Slots :
        req[i].via \in {"hit", "gen"}
        => /\ DirectlyInside(CachePath(req[i].op, req[i].file, req[i].query),
                             CacheDir(req[i].file))
           /\ StrTruthy(req[i].query.format)
                => ToLowerCase(req[i].query.format) \in SupportedFormats

\* slot i carries a request for the asset of row, sent by another user
NonOwner(i, row) ==
    /\ req[i].pc # "idle"
    /\ row.id = req[i].id
    /\ row.user_id # req[i].caller

\* C8 (as amended): a request for an asset by a caller who is not its owner
\* never gets the row, bytes or metadata, never invokes the engine and never
\* touches the cache; it is answered 404 when it passes the parameter checks
\* and 400 when it does not.
C8_NonOwnerRefused ==
    \A i \in Slots : \A row \in AllRows :
        NonOwner(i, row)
        => /\ req[i].pc \in {"lookup", "done"}
           /\ req[i].file = NoRow /\ req[i].via = "none"
           /\ req[i].eng = 0 /\ req[i].bytes = NoContent
           /\ Done(i)
                => IF ValidationError(req[i].op, req[i].query) = ""
                   THEN req[i].status = 404 /\ req[i].err = "File not found"
                   ELSE req[i].status = 400

\* a non-owner's valid request for an image that is registered and on disk
\* has been answered 404
C8_NonOwnerAnswered ==
    \E i \in Slots : \E row \in files :
        /\ NonOwner(i, row) /\ Done(i)
        /\ ValidationError(req[i].op, req[i].query) = ""
        /\ req[i].op \in Transforms
        /\ row.file_type = "image" /\ row.path \in DOMAIN disk
        /\ req[i].status = 404

\* C8 (as stated): a request for an asset by a caller who is not its owner
\* always ends in 404.
C8_NonOwnerAlways404 ==
    \A i \in Slots : \A row \in AllRows :
        (NonOwner(i, row) /\ Done(i)) => req[i].status = 404

\* C9: ownership isolation of the cache.  No cache path checked, written or
\* sent for an asset of one user is, or lies inside, the storage directory of
\* an asset of another user.
C9_CacheIsolated ==
    \A i \in Slots :
        req[i].via \in {"hit", "gen"}
        => \A row \in files :
               row.user_id # req[i].file.user_id
               => ~InsideOrEqual(CachePath(req[i].op, req[i].file, req[i].query),
                                 Dirname(row.path))

\* p is a cache entry of the asset of row: a file in the cache directory next
\* to it whose name starts with the asset's stem
CacheEntryOf(p, row) ==
    LET stem == PathName(row.filename)
        b == Basename(p)
    IN /\ DirectlyInside(p, CacheDir(row))
       /\ Len(b) > Len(stem)
       /\ SubSeq(b, 1, Len(stem)) = stem

\* C10: deletion invalidates derivatives.  Once deleteFile has answered
\* success for an asset, no cache entry derived from it is on disk.
C10_DeletionInvalidates ==
    \A d \in deleted : \A p \in DOMAIN disk : ~CacheEntryOf(p, d)


\* the parameters of a request other than its quality
WithoutQuality(op, query) == Descriptor(op, [query EXCEPT !.quality = Undefined])

\* C11: no hidden state.  The bytes of every successful transform response
\* are the rendition that the asset, the operation and the parameters alone
\* determine, whether or not the asset has an upload-time thumbnail; and two
\* successful requests on one asset that differ only in quality are not
\* answered from the same stored file.
C11_NoHiddenState ==
    /\ \A i \in Slots :
           ( /\ Done(i) /\ req[i].status = 200 /\ req[i].op \in Transforms
             /\ req[i].file.path \in DOMAIN disk )
           => Bytes(req[i].bytes)
                = Rendition(req[i].op, disk[req[i].file.path], req[i].query)
    /\ \A i, j \in Slots :
           ( /\ Done(i) /\ Done(j) /\ req[i].status = 200 /\ req[j].status = 200
             /\ req[i].op \in Transforms /\ req[i].op = req[j].op
             /\ req[i].file = req[j].file
             /\ WithoutQuality(req[i].op, req[i].query)
                  = WithoutQuality(req[j].op, req[j].query)
             /\ QualityOf(req[i].query) # QualityOf(req[j].query) )
           => SendPath(req[i]) # SendPath(req[j])


\* C12: structured errors.  Every failed request to resize, crop, convert,
\* thumbnail or info is answered with a payload that has an error field and a
\* message field.
C12_StructuredErrors ==
    \A i \in Slots :
        (Done(i) /\ req[i].status >= 400) => (req[i].err # "" /\ req[i].msg)


\* the ids of the active users
ActiveIds == {u.id : u \in {v \in UserRows : v.is_active = 1}}

\* the gate's record is right: it admitted only a header that carries the
\* api_key of an active user, as that user; it answered a header without a
\* key with 401 'API key required' and a key of no active user with 401
GateRight ==
    /\ gate.status = 200
         => \E u \in UserRows :
                /\ u.is_active = 1 /\ StrTruthy(gate.header)
                /\ Len(Split(gate.header, " ", <<>>, <<>>)) >= 2
                /\ Split(gate.header, " ", <<>>, <<>>)[2] = u.api_key
                /\ gate.user = u.id
    /\ (gate.route # "none" /\ ~StrTruthy(ApiKeyOf(gate.header)))
         => (gate.status = 401 /\ gate.err = "API key required")
    /\ ( /\ gate.route # "none" /\ StrTruthy(ApiKeyOf(gate.header))
         /\ \A u \in UserRows : u.api_key = ApiKeyOf(gate.header) => u.is_active # 1 )
         => gate.status = 401
    /\ \A i \in Slots : req[i].pc # "idle" => req[i].caller \in ActiveIds
    /\ \A row \in AllRows : row.user_id \in ActiveIds

\* C13: the API key gate.  A request reaches a controller only with a header
\* that carries the api_key of an active user; a request without a key is
\* answered 401 'API key required', one with an unknown or deactivated
\* user's key 401, and a refused request changes nothing.
C13_ApiKeyGate ==
    [][ /\ GateRight'
        /\ (gate'.turn # gate.turn /\ gate'.status = 401) => UNCHANGED served
        /\ gate'.turn = gate.turn => UNCHANGED <<gate, account>> ]_vars

\* the gate has refused the key of the deactivated user while an asset of an
\* active user was registered
C13_DeactivatedRefused ==
    /\ gate.status = 401 /\ gate.err = "Invalid API key"
    /\ ApiKeyOf(gate.header) = <<"k3">>
    /\ files # {}


\* slot i takes the step in which File.findById answers
Resolves(i) == req[i].pc = "lookup" /\ req'[i] # req[i]

IntegerFields(op, query) ==
    CASE op = "resize" -> {query.width, query.height, query.quality}
      [] op = "convert" -> {query.quality}
      [] op = "thumbnail" -> {query.size, query.quality}
      [] op = "crop" -> {query.x, query.y, query.width, query.height, query.quality}
      [] OTHER -> {}

\* a field that is supplied and is no number
NonNumeric(s) == StrTruthy(s) /\ ParseInt(s) = NaN

\* C15: malformed requests are rejected first.  A request that supplies a
\* non-numeric value for an integer parameter is answered 400, and a request
\* the parameter checks refuse has touched neither the registry, the
\* filesystem nor the engine.
C15_MalformedRejected ==
    \A i \in Slots :
        (req[i].op \in Transforms /\ req[i].pc # "idle")
        => /\ (\E s \in IntegerFields(req[i].op, req[i].query) : NonNumeric(s))
                => (Done(i) /\ req[i].status = 400)
           /\ ValidationError(req[i].op, req[i].query) # ""
                => /\ Done(i) /\ req[i].status = 400
                   /\ req[i].file = NoRow /\ req[i].via = "none" /\ req[i].eng = 0


\* the order of a handler's stages
StageOrder ==
    { <<"idle", "lookup">>, <<"idle", "done">>,
      <<"lookup", "engine">>, <<"lookup", "sending">>, <<"lookup", "probe">>,
      <<"lookup", "done">>,
      <<"engine", "writing">>, <<"engine", "done">>,
      <<"writing", "sending">>, <<"writing", "done">>,
      <<"sending", "done">>, <<"probe", "done">> }

\* C16: lookup before compute.  Each request goes through its stages in the
\* order validate, resolve and cache check, generate or hit, respond; the
\* engine is invoked only in a request whose own cache check found the key
\* absent, at most once per request, and never in a request that found the
\* entry.
C16_LookupBeforeCompute ==
    [][ \A i \in Slots :
            /\ req'[i].pc # req[i].pc => <<req[i].pc, req'[i].pc>> \in StageOrder
            /\ req'[i].eng # req[i].eng
                 => /\ req[i].pc = "engine" /\ req[i].via = "gen"
                    /\ req[i].eng = 0 /\ req'[i].eng = 1
            /\ (req[i].pc = "lookup" /\ req'[i].pc = "engine")
                 => /\ req'[i].via = "gen"
                    /\ CachePath(req'[i].op, req'[i].file, req'[i].query)
                         \notin (DOMAIN disk \cup dirs)
            /\ req'[i].via \in {"hit", "thumb"} => req'[i].eng = 0 ]_vars

\* one request has generated a rendition and a later one for the same key
\* has been answered from the cache without the engine
C16_GeneratedThenHit ==
    \E i, j \in Slots :
        /\ i # j /\ Done(i) /\ Done(j) /\ SameRequest(i, j)
        /\ req[i].via = "gen" /\ req[i].eng = 1 /\ req[i].status = 200
        /\ req[j].via = "hit" /\ req[j].eng = 0 /\ req[j].status = 200


\* the asset slot i asks for is a registered image of its caller whose
\* original is not on disk
SourceMissing(i) ==
    \E row \in files :
        /\ row.id = req[i].id /\ row.user_id = req[i].caller
        /\ row.file_type = "image"
        /\ row.path \notin DOMAIN disk

\* C17 (as amended): SourceFileMissing.  When a request resolves a registered
\* image of its caller whose original is absent from storage, it is answered
\* 404 'Physical file not found' in that step, whether or not a cache entry
\* for its key exists, the engine is not invoked and nothing is written.
C17_SourceFileMissing ==
    [][ \A i \in Slots :
            (Resolves(i) /\ SourceMissing(i))
            => /\ req'[i].pc = "done" /\ req'[i].status = 404
               /\ req'[i].err = "Physical file not found"
               /\ req'[i].eng = 0 /\ req'[i].via = "none"
               /\ req'[i].bytes = NoContent
               /\ UNCHANGED <<disk, dirs>> ]_vars

\* a request has been answered 404 'Physical file not found' although the
\* cache entry for its key is on disk
C17_MissingDespiteCache ==
    \E i \in Slots :
        /\ Done(i) /\ req[i].status = 404 /\ req[i].err = "Physical file not found"
        /\ req[i].op \in Transforms
        /\ req[i].file \in files
        /\ CachePath(req[i].op, req[i].file, req[i].query) \in DOMAIN disk

\* C17 (as stated): every request sent for a registered image of its caller
\* whose original is absent ends in 404 'Physical file not found'.
C17_MissingAlways404 ==
    [][ \A i \in Slots :
            ( /\ req[i].pc = "idle" /\ req'[i].pc = "done"
              /\ \E row \in files :
                     /\ row.id = req'[i].id /\ row.user_id = req'[i].caller
                     /\ row.file_type = "image" /\ row.path \notin DOMAIN disk )
            => (req'[i].status = 404 /\ req'[i].err = "Physical file not found") ]_vars


\* C18: no partial results.  With one request in flight at a time, a request
\* whose encode-to-file call fails is answered 500, and no request answered
\* with success carries the bytes of a write that did not finish.
C18_NoPartialResults ==
    [][ \A i \in Slots :
            /\ (req[i].pc = "writing" /\ req'[i].pc = "done")
               => (req'[i].status = 500 /\ req'[i].bytes = NoContent)
            /\ (req[i].pc = "sending" /\ req'[i].pc = "done" /\ req'[i].status = 200)
               => ~req'[i].bytes.torn ]_vars


\* the image format a file name's extension announces ("none" without one)
FormatOfExtension(p) ==
    LET e == Extname(p)
    IN IF Len(e) # 2 THEN "none"
       ELSE IF e[2] \in {"jpg", "jpeg"} THEN "jpeg" ELSE e[2]

\* the target formats the resize operation is specified for
ResizeFormats == {Undefined, <<"jpeg">>, <<"png">>, <<"webp">>, <<"gif">>}

\* C19: resize target format.  Every cache entry a resize request with a
\* target format in {jpeg, png, webp, gif}, or with none, has encoded to its
\* end is encoded in the format the extension of its file name announces.
C19_ResizeFormat ==
    \A i \in Slots :
        ( /\ req[i].op = "resize" /\ req[i].via = "gen"
          /\ req[i].pc \in {"sending", "done"} /\ req[i].status \in {0, 200}
          /\ req[i].query.format \in ResizeFormats
          /\ SendPath(req[i]) \in DOMAIN disk )
        => disk[SendPath(req[i])].fmt = FormatOfExtension(SendPath(req[i]))


\* C20: info is read-only.  Every step of a getImageInfo request, whatever the
\* request's outcome, leaves the files on disk, the directories and the
\* registry as they are.
C20_InfoReadOnly ==
    [][ \A i \in Slots :
            (req'[i].op = "info" /\ req'[i] # req[i])
            => UNCHANGED <<files, folders, lastFileId, lastFolderId, uploads,
                           disk, dirs, unlinking, deleted>> ]_vars

\* an info request has been answered with the metadata of an image whose
\* cache directory does not exist
C20_InfoAnswered ==
    \E i \in Slots :
        /\ Done(i) /\ req[i].op = "info" /\ req[i].status = 200
        /\ req[i].bytes.kind = "metadata"
        /\ req[i].file.path \in DOMAIN disk
        /\ CacheDir(req[i].file) \notin dirs


\* the thumbnail size of a query, 300 when absent, is an integer in 50..1000
SizeInRange(query) ==
    LET s == SizeOf(query)
    IN s.t = "num" /\ s.n >= MinThumb /\ s.n <= MaxThumb

\* C21: thumbnail size validation.  A thumbnail request whose size, 300 when
\* absent, is no integer in 50..1000 is answered 400 before the registry and
\* the engine, and one whose size is in that range is not refused for its
\* size.
C21_ThumbnailSize ==
    \A i \in Slots :
        (req[i].op = "thumbnail" /\ req[i].pc # "idle")
        => /\ ~SizeInRange(req[i].query)
                => /\ Done(i) /\ req[i].status = 400
                   /\ req[i].via = "none" /\ req[i].eng = 0
           /\ SizeInRange(req[i].query) => req[i].err # "Invalid size"


\* an integer that is at least k
AtLeast(v, k) == v.t = "num" /\ v.n >= k

\* x, y, width and height are all supplied, x and y at least 0, width and
\* height at least 1
CropRegionValid(query) ==
    /\ StrTruthy(query.x) /\ StrTruthy(query.y)
    /\ StrTruthy(query.width) /\ StrTruthy(query.height)
    /\ AtLeast(ParseInt(query.x), 0) /\ AtLeast(ParseInt(query.y), 0)
    /\ AtLeast(ParseInt(query.width), 1) /\ AtLeast(ParseInt(query.height), 1)

\* C22: crop validation.  A crop request whose region is not valid is answered
\* 400 without the registry and the engine, and one whose region is valid
\* (x = 0 and y = 0 included) is not refused for its region.
C22_CropValidation ==
    \A i \in Slots :
        (req[i].op = "crop" /\ req[i].pc # "idle")
        => /\ ~CropRegionValid(req[i].query)
                => /\ Done(i) /\ req[i].status = 400
                   /\ req[i].via = "none" /\ req[i].eng = 0
           /\ CropRegionValid(req[i].query)
                => req[i].err \notin {"Missing parameters", "Invalid crop parameters"}


\* C23: shrink-only resize.  Every resize request answered with success
\* carries a rendition no wider than its source and than the requested width
\* when one is given, and no higher than its source and than the requested
\* height when one is given.
C23_ShrinkOnly ==
    \A i \in Slots :
        (req[i].op = "resize" /\ Done(i) /\ req[i].status = 200)
        => LET w == DimOf(req[i].query.width)
               h == DimOf(req[i].query.height)
           IN /\ req[i].bytes.w <= req[i].file.width
              /\ req[i].bytes.h <= req[i].file.height
              /\ w.t = "num" => req[i].bytes.w <= w.n
              /\ h.t = "num" => req[i].bytes.h <= h.n


\* this step sends a response of the auth or folder controller op
Answers(op) == res'.turn # res.turn /\ res'.op = op

\* C24: folders are user-scoped.  createFolder with a valid name, and with no
\* parent or a parent of the caller, is answered 201 and inserts the caller's
\* folder whenever the caller has no folder with the generated path, whatever
\* folders other users have.
C24_UserScopedFolders ==
    [][ ( /\ Answers("createFolder")
          /\ ValidFolderName(res'.name)
          /\ ParentFound(res'.parent, res'.caller)
          /\ FolderFindByPath(generatePath(res'.name), res'.caller) = {} )
        => /\ res'.status = 201
           /\ \E f \in folders' \ folders :
                  /\ f.user_id = res'.caller
                  /\ f.path = generatePath(res'.name) ]_vars

\* folder id has a file in it or a folder under it
NonEmptyFolder(id) ==
    FolderContents(id).file_count > 0 \/ FolderContents(id).subfolder_count > 0

\* C25: a folder with contents is never deleted.  In every interleaving, a
\* folder row that is removed has no file row in it and no folder row under it
\* at that moment, and deleteFolder on a folder with contents answers 400 and
\* leaves the registry as it is.
C25_NonEmptyKept ==
    [][ /\ \A f \in folders \ folders' : ~NonEmptyFolder(f.id)
        /\ (Answers("deleteFolder") /\ NonEmptyFolder(res'.id))
           => /\ res'.status = 400
              /\ UNCHANGED <<files, folders, disk, dirs>> ]_vars


\* User.findByApiKey on rows: the active users with the key
ActiveWithKey(rows, key) == {v \in rows : v.api_key = key /\ v.is_active = 1}

\* C26: API key regeneration.  An active user who presents the token of their
\* login to generate-key is answered 200 with a new key; after that the key
\* they had is the key of no active user and the new key is theirs alone.
C26_KeyRegenerated ==
    [][ Answers("generateApiKey")
        => \E u \in users :
               /\ u.id = res.token.userId
               /\ res'.status = 200
               /\ res'.key # u.api_key
               /\ ActiveWithKey(users', u.api_key) = {}
               /\ {v.id : v \in ActiveWithKey(users', res'.key)} = {u.id} ]_vars


\* deleteFile has answered success for the asset slot i asks for
AssetDeleted(i) == \E f \in deleted : f.id = req[i].id

\* C28 (as amended): no stale serving through the service.  Once deleteFile
\* has answered success for an asset, a request for its id that resolves its
\* source is answered 404 'File not found' in that step, carries no bytes and
\* invokes no engine, whatever cache entries of the asset are still on disk.
C28_NoStaleServing ==
    [][ \A i \in Slots :
            (Resolves(i) /\ AssetDeleted(i))
            => /\ req'[i].pc = "done" /\ req'[i].status = 404
               /\ req'[i].err = "File not found"
               /\ req'[i].bytes = NoContent
               /\ req'[i].eng = 0 /\ req'[i].via = "none"
               /\ UNCHANGED <<disk, dirs>> ]_vars

\* a transform request was answered with a generated rendition, the asset was
\* deleted, and the same request sent again by the owner was answered 404
\* while the cache entry is still on disk
C28_RefusedDespiteCache ==
    \E f \in deleted :
        /\ req[1].id = f.id /\ req[1].caller = f.user_id
        /\ Done(1) /\ req[1].status = 200 /\ req[1].via = "gen"
        /\ req[2].id = f.id /\ req[2].caller = f.user_id
        /\ req[2].op = req[1].op /\ req[2].query = req[1].query
        /\ Done(2) /\ req[2].status = 404 /\ req[2].err = "File not found"
        /\ CachePath(req[1].op, f, req[1].query) \in DOMAIN disk

\* C28 (as stated): every request sent for the id of an asset after deleteFile
\* has answered success for it ends in 404.
C28_DeletedAlways404 ==
    [][ \A i \in Slots :
            ( /\ req[i].pc = "idle" /\ req'[i].pc # "idle"
              /\ \E f \in deleted : f.id = req'[i].id )
            => (req'[i].pc = "done" => req'[i].status = 404) ]_vars


\* C29: delete/derive race.  In every interleaving, no step puts a cache
\* entry of an asset on disk, or creates its cache directory, after the
\* asset's row has been deleted.
C29_NoDeriveAfterDelete ==
    [][ \A d \in unlinking \cup deleted :
            /\ \A p \in DOMAIN disk' : CacheEntryOf(p, d) => p \in DOMAIN disk
            /\ (CacheDir(d) \in dirs' /\ d.id \notin {f.id : f \in files})
                   => CacheDir(d) \in dirs ]_vars


\* the errors of a request that was rejected before any processing
Rejections ==
    { "Missing parameters", "Invalid dimensions", "Invalid quality", "Missing format",
      "Unsupported format", "Invalid size", "Invalid crop parameters",
      "File not found", "Invalid file type", "Physical file not found" }

\* slot i is answered with a rejection in this step
Rejected(i) ==
    /\ req[i].pc # "done" /\ req'[i].pc = "done"
    /\ req'[i].op \in Transforms
    /\ req'[i].status \in {400, 404}
    /\ req'[i].err \in Rejections

\* slot i resolves a request that passes every check: valid parameters, a row
\* of the caller, an image, its original on disk
PassesChecks(i) ==
    /\ Resolves(i)
    /\ req[i].op \in Transforms
    /\ ValidationError(req[i].op, req[i].query) = ""
    /\ \E row \in files :
           /\ row.id = req[i].id /\ row.user_id = req[i].caller
           /\ row.file_type = "image"
           /\ row.path \in DOMAIN disk

\* C30: rejected requests change nothing.  The step that answers a transform
\* request with a validation error, 404 'File not found', 400 'Invalid file
\* type' or 404 'Physical file not found', and the step that takes a request
\* in, leave the files, the directories and the registry as they are; and a
\* cache directory is created only in the step of a request that passes all
\* of these checks.
C30_RejectedChangeNothing ==
    [][ /\ \A i \in Slots :
               (Rejected(i) \/ (req[i].pc = "idle" /\ req'[i].pc # "idle"))
               => UNCHANGED <<disk, dirs, files, folders, lastFileId, lastFolderId>>
        /\ (\E d \in dirs' \ dirs : Basename(d) = <<"cache">>)
               => \E i \in Slots : PassesChecks(i) ]_vars

\* a transform request of the owner of an image whose original is gone has
\* been answered 404 and the cache directory of the asset does not exist
C30_RejectedWithoutCacheDir ==
    \E i \in Slots :
        /\ Done(i) /\ req[i].op \in Transforms
        /\ req[i].status = 404 /\ req[i].err = "Physical file not found"
        /\ req[i].file \in files
        /\ req[i].file.path \notin DOMAIN disk
        /\ CacheDir(req[i].file) \notin dirs

=============================================================================
